---- MODULE Spec2Model ----
(***************************************************************************)
(* MaxTrack journey-export service: the request handler of server.js, the  *)
(* upstream client and job matcher of api.js, and the remote platform the  *)
(* client talks to.  Time is in milliseconds, as in the source.            *)
(***************************************************************************)
EXTENDS Integers, Sequences, FiniteSets, TLC

\* ---------------------------------------------------------------------
\* Program constants (server.js, api.js)
\* ---------------------------------------------------------------------
PROCESS_NAME == "Planilha de Jornadas V2"
POLL_INTERVAL_MS == 5000
INITIAL_DELAY_MS == 3000
MAX_POLL_TIME_MS == 10 * 60 * 1000
\* job-search window of resolveExportUrl: [now - 2 h, now + 5 min]
SEARCH_LOOKBACK_MS == 2 * 60 * 60 * 1000
SEARCH_LOOKAHEAD_MS == 5 * 60 * 1000
\* listProcesses asks for page 0 with this page size
PAGE_SIZE == 100

\* ---------------------------------------------------------------------
\* Bounds of the model
\* ---------------------------------------------------------------------
\* wall clock (ms) at which the modelled run starts
StartClock == 10000000
\* latency (ms) of one upstream call in the runs that have latency
LatencyMs == 2100
\* length of the job lists the matcher is applied to on its own
MaxListLen == 3

\* ---------------------------------------------------------------------
\* JavaScript values
\* ---------------------------------------------------------------------
\* undefined / null / "" of a string-valued field: all falsy
Undef == ""
\* a || b on string-valued operands
JsOr(a, b) == IF a # Undef THEN a ELSE b
\* the null returned by findProcessByNameAndDate
null == [isNull |-> TRUE]

\* A job record as the platform returns it.  The state and the result
\* reference each sit at one of two nesting paths (legacy / current shape).
MkJob(shape, id, name, createDate, st, url) ==
  [id |-> id, name |-> name, createDate |-> createDate,
   state |-> IF shape = "top" THEN st ELSE Undef,
   statusState |-> IF shape = "top" THEN Undef ELSE st,
   resultFileUrl |-> IF shape = "top" THEN url ELSE Undef,
   statusResultFileUrl |-> IF shape = "top" THEN Undef ELSE url]

\* process.state?.id || process.status?.state?.id
StateOf(process) == JsOr(process.state, process.statusState)
\* a reader of the top-level path only
ResultUrlOfTopLevelOnly(process) == process.resultFileUrl

\* process.resultFileUrl || process.status?.resultFileUrl
ResultUrlOf(process) == JsOr(process.resultFileUrl, process.statusResultFileUrl)

\* ---------------------------------------------------------------------
\* Job Matcher (api.js findProcessByNameAndDate)
\* ---------------------------------------------------------------------
\* variant of the filter predicate: the upper bound of the window excluded
IsMatchEndExclusive(process, processName, startTimestamp, endTimestamp) ==
  /\ process.name = processName
  /\ process.createDate >= startTimestamp
  /\ process.createDate < endTimestamp

\* the filter predicate
IsMatch(process, processName, startTimestamp, endTimestamp) ==
  LET nameMatch == process.name = processName
      dateMatch == /\ process.createDate >= startTimestamp
                   /\ process.createDate <= endTimestamp
  IN nameMatch /\ dateMatch

RECURSIVE FilterMatches(_, _, _, _)
FilterMatches(processList, processName, startTimestamp, endTimestamp) ==
  IF processList = <<>> THEN <<>>
  ELSE LET rest == FilterMatches(Tail(processList), processName,
                                 startTimestamp, endTimestamp)
       IN IF IsMatch(Head(processList), processName, startTimestamp, endTimestamp)
          THEN <<Head(processList)>> \o rest
          ELSE rest

\* a comparator with the operands swapped (oldest first)
ComesBeforeAscending(a, b) == a.createDate - b.createDate <= 0

\* comparator (a, b) => b.createDate - a.createDate: a stays before b
\* unless the result is positive
ComesBefore(a, b) == b.createDate - a.createDate <= 0

\* Array.prototype.sort is stable: insert x after the last element that
\* is not ordered after it
RECURSIVE InsertSorted(_, _)
InsertSorted(x, sorted) ==
  IF sorted = <<>> THEN <<x>>
  ELSE IF ComesBefore(Head(sorted), x)
       THEN <<Head(sorted)>> \o InsertSorted(x, Tail(sorted))
       ELSE <<x>> \o sorted

RECURSIVE SortByCreateDateDesc(_)
SortByCreateDateDesc(list) ==
  IF list = <<>> THEN <<>>
  ELSE InsertSorted(list[Len(list)],
                    SortByCreateDateDesc(SubSeq(list, 1, Len(list) - 1)))

findProcessByNameAndDate(processList, processName, startTimestamp, endTimestamp) ==
  LET matches == FilterMatches(processList, processName, startTimestamp, endTimestamp)
  IN IF Len(matches) = 0 THEN null
     ELSE SortByCreateDateDesc(matches)[1]

\* Arrays are objects: processList.filter() makes the new array matches,
\* matches.sort() reorders its receiver in place.
\* a sort that reaches the caller's array as well (matches aliasing it)
SortReceiverAndInput(arrays, a) ==
  [arrays EXCEPT ![a] = SortByCreateDateDesc(arrays[a]),
                 !.processList = SortByCreateDateDesc(arrays.processList)]

SortReceiver(arrays, a) == [arrays EXCEPT ![a] = SortByCreateDateDesc(arrays[a])]

\* the arrays as one call of findProcessByNameAndDate leaves them
ArraysAfterFind(processList, processName, startTimestamp, endTimestamp) ==
  LET filtered == [processList |-> processList,
                   matches |-> FilterMatches(processList, processName,
                                             startTimestamp, endTimestamp)]
  IN IF Len(filtered.matches) = 0 THEN filtered
     ELSE SortReceiver(filtered, "matches")

\* ---------------------------------------------------------------------
\* The remote platform (not code of this repository): job store, lifecycle
\* ---------------------------------------------------------------------
ReqIds == {"r1", "r2"}
KnownStates == {"SCHEDULED", "WAITING", "PROCESSING", "COMPLETED", "ERROR", "CANCELLED"}
\* a state the platform could add later
UnknownState == "PAUSED"
FileUrl == "https://x/1"
OtherName == "Outro Relatorio"
Shapes == {"top", "nested"}

\* Scheduled -> Waiting -> Processing -> {Completed | Error | Cancelled}
NextStates(st) ==
  CASE st = "SCHEDULED" -> {"WAITING"}
    [] st = "WAITING" -> {"PROCESSING"}
    [] st = "PROCESSING" -> {"COMPLETED", "ERROR", "CANCELLED"}
    [] st = UnknownState -> {"PROCESSING"}
    [] OTHER -> {}

\* a job record exists on the platform from its creation time on
Visible(jobs, t) == SelectSeq(jobs, LAMBDA j : j.createDate <= t)

\* the platform answers sort "createDate desc", page 0 of PAGE_SIZE
ListResponse(jobs, t) ==
  LET sorted == SortByCreateDateDesc(Visible(jobs, t))
  IN SubSeq(sorted, 1, IF Len(sorted) < PAGE_SIZE THEN Len(sorted) ELSE PAGE_SIZE)

\* delay between an accepted trigger and the creation of its job record
VisibleLagMs == 4000
LateCreateMs == 301000
CreateDelays == {0, VisibleLagMs, LateCreateMs}

\* non-success answers of the platform: status and body
Failures == {[status |-> "500", body |-> "Internal Server Error"],
             [status |-> "401", body |-> "Login failed: session expired"]}

\* ---------------------------------------------------------------------
\* Errors and responses (server.js handleJourneyExport, handleRequest)
\* ---------------------------------------------------------------------
\* An Error's message is a sequence of text pieces; message.includes(x)
\* holds when a piece contains x.
Contains(piece, needle) ==
  IF needle = "Login failed"
  THEN piece \in {"Login failed:", "Login failed: session expired"}
  ELSE piece = needle
Includes(message, needle) == \E i \in DOMAIN message : Contains(message[i], needle)

\* a response: status, the JSON body's success and error (or the file as
\* body) and the Content-Disposition header
NoResponse ==
  [status |-> 0, success |-> FALSE, error |-> <<>>, file |-> Undef,
   disposition |-> Undef]
JsonError(status, message) ==
  [status |-> status, success |-> FALSE, error |-> message, file |-> Undef,
   disposition |-> Undef]
HealthOk ==
  [status |-> 200, success |-> TRUE, error |-> <<>>, file |-> Undef,
   disposition |-> Undef]
FileResponse(url) ==
  [status |-> 200, success |-> TRUE, error |-> <<>>, file |-> url,
   disposition |-> "attachment; filename=\"jornada-export.xls\""]

\* status answered when email or password is missing
MISSING_CREDENTIALS_STATUS == 401

\* a catch block that answers every error alike
CatchResponseAlways500(message) == JsonError(500, message)

\* the catch block of handleJourneyExport
CatchResponse(message) ==
  IF Includes(message, "Login failed")
  THEN JsonError(401, <<"Authentication failed: Invalid credentials">>)
  ELSE JsonError(500, message)

\* messages of the errors thrown
LoginFailed(status, body) == <<"Login failed:", status, body>>
NoSessionCookie == <<"No session cookie received from login">>
TenantTypeError == <<"undefined is not an object (evaluating 'authData.empresa.uid')">>
ListFailed(status, body) == <<"List processes failed:", status, body>>
ExportFailed(status, body) == <<"Export journey failed:", status, body>>
JsonParseError == <<"JSON Parse error: Unexpected EOF">>
ProcessFailed(state) == <<"Process failed with state:", state>>
PollingTimeout == <<"Polling timeout: Process did not complete within 10 minutes">>
NoFileUrl == <<"Export completed but no file URL was returned">>
DownloadFailed(status) == <<"Failed to download file:", status>>
BodyReadFailed == <<"The socket connection was closed unexpectedly">>

\* ---------------------------------------------------------------------
\* Decisions of resolveExportUrl and pollForCompletion
\* ---------------------------------------------------------------------
\* variant of the initial decision: a completed job is polled for, not returned
InitialDecisionNoShortcut(existingProcess) ==
  IF existingProcess # null
  THEN IF StateOf(existingProcess) \in {"COMPLETED", "SCHEDULED", "WAITING", "PROCESSING"}
       THEN "poll" ELSE "trigger"
  ELSE "trigger"

\* variant of the initial decision: with no match, wait for a job
\* somebody else may have triggered
InitialDecisionWaitsForOthers(existingProcess) ==
  IF existingProcess # null
  THEN LET state == StateOf(existingProcess)
       IN IF state = "COMPLETED" THEN "return"
          ELSE IF state = "SCHEDULED" \/ state = "WAITING" \/ state = "PROCESSING"
               THEN "poll"
               ELSE "trigger"
  ELSE "poll"

\* resolveExportUrl after the initial listing: return the result
\* reference, poll for the existing job, or trigger a new export
InitialDecision(existingProcess) ==
  IF existingProcess # null
  THEN LET state == StateOf(existingProcess)
       IN IF state = "COMPLETED" THEN "return"
          ELSE IF state = "SCHEDULED" \/ state = "WAITING" \/ state = "PROCESSING"
               THEN "poll"
               ELSE "trigger"
  ELSE "trigger"

\* variant of the poll decision: a job still PROCESSING is returned
PollDecisionEager(process) ==
  IF process = null THEN "wait"
  ELSE LET state == StateOf(process)
       IN IF state = "COMPLETED" \/ state = "PROCESSING" THEN "return"
          ELSE IF state = "ERROR" \/ state = "CANCELLED" THEN "throw"
               ELSE "wait"

\* variant of the poll decision: a CANCELLED job is polled again
PollDecisionCancelledWaits(process) ==
  IF process = null THEN "wait"
  ELSE LET state == StateOf(process)
       IN IF state = "COMPLETED" THEN "return"
          ELSE IF state = "ERROR" THEN "throw"
               ELSE "wait"

\* pollForCompletion after one listing: wait and retry, return the job,
\* or throw
PollDecision(process) ==
  IF process = null THEN "wait"
  ELSE LET state == StateOf(process)
       IN IF state = "COMPLETED" THEN "return"
          ELSE IF state = "ERROR" \/ state = "CANCELLED" THEN "throw"
               ELSE "wait"

\* variant of the while condition: the 5-minute budget of the first version
LoopGuardFiveMinutes(t, startTime) == t - startTime < 5 * 60 * 1000

\* the while condition of pollForCompletion
LoopGuard(t, startTime) == t - startTime < MAX_POLL_TIME_MS

\* variant of the upper bound: as far ahead as the poller may run
SearchEndAtDeadline(t) == t + MAX_POLL_TIME_MS

\* the window resolveExportUrl searches jobs in
SearchStart(t) == t - SEARCH_LOOKBACK_MS
SearchEnd(t) == t + SEARCH_LOOKAHEAD_MS

\* variant of the poller's window: the bounds moved back by one day
PollWindowDayBefore(q) ==
  <<q.processSearchStart - 24 * 60 * 60 * 1000, q.processSearchEnd - 24 * 60 * 60 * 1000>>

\* the window bounds resolveExportUrl hands to pollForCompletion
PollWindow(q) == <<q.processSearchStart, q.processSearchEnd>>

\* variant of the first delay: the constant taken as seconds, 3 ms
FirstDelayAsSeconds == INITIAL_DELAY_MS \div 1000

\* the delay pollForCompletion waits before its first check, and between checks
FirstDelay == INITIAL_DELAY_MS
\* variant of the delay between checks: the initial delay used again
RetryDelayAsFirstDelay == INITIAL_DELAY_MS
RetryDelay == POLL_INTERVAL_MS

\* ---------------------------------------------------------------------
\* State
\* ---------------------------------------------------------------------
VARIABLES
  now,      \* Date.now()
  store,    \* the platform's job records
  shape,    \* nesting path the platform uses for state and result reference
  lat,      \* latency of an upstream call in this run
  nextId,   \* identifier the platform gives the next job
  clients,  \* the requests that arrive in this run
  req,      \* per request: the locals of handleRequest and its callees
  log,      \* per request: history of what the request did
  fm,       \* the matcher applied on its own: arguments and result
  dr        \* getYesterdayDateRange applied on its own: time zone and result

vars == <<now, store, shape, lat, nextId, clients, req, log, fm, dr>>

NoAuth == [playSessionCookie |-> Undef, empresaUid |-> Undef]

InitReq ==
  [pc |-> "idle", wake |-> 0,
   method |-> Undef, path |-> Undef, email |-> Undef, password |-> Undef,
   authData |-> NoAuth,
   processSearchStart |-> 0, processSearchEnd |-> 0, existingProcess |-> null,
   startTimestamp |-> 0, endTimestamp |-> 0, startTime |-> 0, pollCount |-> 0,
   process |-> null, fileUrl |-> Undef, fileBuffer |-> Undef,
   response |-> NoResponse]

InitLog ==
  [login |-> 0, list |-> 0, trigger |-> 0, download |-> 0,
   timers |-> 0, lastDelay |-> 0, pollListings |-> 0, observations |-> 0,
   lastObs |-> "none", poller |-> "none", pollExit |-> 0,
   resolution |-> "none", listError |-> <<>>, triggeredJob |-> 0,
   triggerError |-> <<>>, initialListed |-> FALSE, trail |-> 0,
   loginOutcome |-> "none", fileFetch |-> "none", arrivedAt |-> 0]

FmOff == [pc |-> "off", list |-> <<>>, name |-> Undef, start |-> 0, end |-> 0,
          listAfter |-> <<>>, result |-> null, resultAgain |-> null]

\* a time zone with one change of its UTC offset: local time is UTC +
\* before up to the instant at, UTC + after from then on
UtcZone == [at |-> 0, before |-> 0, after |-> 0]
DrOff == [pc |-> "off", tz |-> UtcZone, startDate |-> <<0, 0>>, endDate |-> <<0, 0>>,
          startTimestamp |-> 0, endTimestamp |-> 0]

\* the jobs the platform may hold when the run starts
PreJobs(sh) ==
  {MkJob(sh, 1, PROCESS_NAME, StartClock - 60 * 60 * 1000, st, Undef) :
     st \in (KnownStates \cup {UnknownState}) \ {"COMPLETED"}}
  \cup {MkJob(sh, 1, PROCESS_NAME, StartClock - 60 * 60 * 1000, "COMPLETED", u) :
     u \in {FileUrl, Undef}}
  \cup {MkJob(sh, 1, PROCESS_NAME, StartClock - 3 * 60 * 60 * 1000, "COMPLETED", FileUrl),
        MkJob(sh, 1, OtherName, StartClock - 60 * 60 * 1000, "COMPLETED", FileUrl)}

InitPlatform ==
  /\ now = StartClock
  /\ shape \in Shapes
  /\ lat \in {0, LatencyMs}
  /\ store \in {<<>>} \cup {<<j>> : j \in PreJobs(shape)}
  /\ nextId = 2

Init ==
  /\ InitPlatform
  /\ clients = {"r1"}
  /\ req = [r \in ReqIds |-> InitReq]
  /\ log = [r \in ReqIds |-> InitLog]
  /\ fm = FmOff
  /\ dr = DrOff

\* a request suspended on a timer or an upstream call
Suspended(r) == req[r].pc \notin {"idle", "done"}
\* timers and responses complete in the order of their due times
CanResume(r) ==
  /\ Suspended(r)
  /\ \A o \in ReqIds \ {r} : Suspended(o) => req[r].wake <= req[o].wake

\* ---------------------------------------------------------------------
\* Steps of one request, from a resumption to the next suspension.
\* Each yields the request's new locals q and new history g.
\* ---------------------------------------------------------------------
Step(q, g) == [q |-> q, g |-> g]

\* the handler returns a response
Respond(q, g, response) ==
  Step([q EXCEPT !.pc = "done", !.response = response], g)

\* an error that nothing catches: no response is ever produced
ThrowUncaught(q, g, message) == Step([q EXCEPT !.pc = "hung"], g)

\* an error thrown inside the try block of handleJourneyExport
Throw(q, g, message) == Respond(q, g, CatchResponse(message))

\* variant of the listing error: absorbed by the poll loop and retried
OnListErrorRetry(q, g, message) ==
  Step([q EXCEPT !.pc = "pollWait", !.wake = q.wake + RetryDelay],
       [g EXCEPT !.timers = @ + 1])

\* a rejected listProcesses propagates out of resolveExportUrl / pollForCompletion
OnListError(q, g, message) ==
  Throw(q, [g EXCEPT !.resolution = "failed",
                     !.poller = IF @ = "running" THEN "aborted" ELSE @], message)

\* a handler that fetches whatever resolveExportUrl returned
AfterResolveNoUrlTest(q, g, fileUrl, t) ==
  Step([q EXCEPT !.fileUrl = fileUrl, !.pc = "download", !.wake = t + lat],
       [g EXCEPT !.resolution = "resolved", !.download = @ + 1])

\* handleJourneyExport once resolveExportUrl has returned fileUrl at time t
AfterResolve(q, g, fileUrl, t) ==
  LET q1 == [q EXCEPT !.fileUrl = fileUrl]
      g1 == [g EXCEPT !.resolution = "resolved"]
  IN IF fileUrl = Undef
     THEN Throw(q1, g1, NoFileUrl)
     ELSE Step([q1 EXCEPT !.pc = "download", !.wake = t + lat],
               [g1 EXCEPT !.download = @ + 1])

\* a handler that does not test fileResponse.ok
AfterDownloadUnchecked(q, g, ok, status, t) ==
  Step([q EXCEPT !.pc = "body", !.wake = t + lat], g)

\* a handler that fetches the file again when the GET is refused
AfterDownloadRetry(q, g, ok, status, t) ==
  IF ~ok
  THEN Step([q EXCEPT !.pc = "download", !.wake = t + lat],
            [g EXCEPT !.download = @ + 1])
  ELSE Step([q EXCEPT !.pc = "body", !.wake = t + lat], g)

\* handleJourneyExport once fetch(fileUrl) has settled at time t:
\* throw on !fileResponse.ok, else await fileResponse.arrayBuffer()
AfterDownload(q, g, ok, status, t) ==
  IF ~ok
  THEN Throw(q, g, DownloadFailed(status))
  ELSE Step([q EXCEPT !.pc = "body", !.wake = t + lat], g)

\* pollForCompletion is entered at time t
EnterPoll(q, g, t) ==
  Step([q EXCEPT !.startTimestamp = PollWindow(q)[1],
                 !.endTimestamp = PollWindow(q)[2],
                 !.startTime = t, !.pollCount = 0,
                 !.pc = "pollDelay", !.wake = t + FirstDelay],
       [g EXCEPT !.poller = "running", !.timers = @ + 1, !.lastDelay = FirstDelay])

\* resolveExportUrl after the initial listProcesses returned list at time t
AfterInitialList(q, g, list, t) ==
  LET existingProcess == findProcessByNameAndDate(list, PROCESS_NAME,
                            q.processSearchStart, q.processSearchEnd)
      q1 == [q EXCEPT !.existingProcess = existingProcess]
      g1 == [g EXCEPT !.initialListed = TRUE]
      decision == InitialDecision(existingProcess)
  IN CASE decision = "return" ->
            AfterResolve(q1, g1, ResultUrlOf(existingProcess), t)
       [] decision = "poll" -> EnterPoll(q1, g1, t)
       [] OTHER ->
            Step([q1 EXCEPT !.pc = "trigger", !.wake = t + lat],
                 [g1 EXCEPT !.trigger = @ + 1])

\* the top of the while loop of pollForCompletion, reached at time t
LoopTop(q, g, t) ==
  IF LoopGuard(t, q.startTime)
  THEN Step([q EXCEPT !.pollCount = @ + 1, !.pc = "pollList", !.wake = t + lat],
            [g EXCEPT !.list = @ + 1, !.pollListings = @ + 1])
  ELSE Throw(q, [g EXCEPT !.poller = "timeout", !.pollExit = t,
                          !.resolution = "failed"], PollingTimeout)

\* how far the poller's observations have followed WAITING, PROCESSING,
\* COMPLETED from its first listing on (-1: they departed from it)
TrailAfter(trail, obs) ==
  IF trail = 0 /\ obs = "WAITING" THEN 1
  ELSE IF trail = 1 /\ obs = "PROCESSING" THEN 2
  ELSE IF trail = 2 /\ obs = "COMPLETED" THEN 3
  ELSE -1

\* the body of the loop after listProcesses returned list at time t
AfterPollList(q, g, list, t) ==
  LET process == findProcessByNameAndDate(list, PROCESS_NAME,
                                          q.startTimestamp, q.endTimestamp)
      q1 == [q EXCEPT !.process = process]
      obs == IF process = null THEN "none" ELSE StateOf(process)
      g1 == [g EXCEPT !.observations = @ + 1, !.lastObs = obs,
                      !.trail = TrailAfter(@, obs)]
      decision == PollDecision(process)
  IN CASE decision = "return" ->
            AfterResolve(q1, [g1 EXCEPT !.poller = "returned", !.pollExit = t],
                         ResultUrlOf(process), t)
       [] decision = "throw" ->
            Throw(q1, [g1 EXCEPT !.poller = "failed", !.pollExit = t,
                                 !.resolution = "failed"],
                  ProcessFailed(StateOf(process)))
       [] OTHER ->
            Step([q1 EXCEPT !.pc = "pollWait", !.wake = t + RetryDelay],
                 [g1 EXCEPT !.timers = @ + 1, !.lastDelay = RetryDelay])

\* ---------------------------------------------------------------------
\* Actions
\* ---------------------------------------------------------------------
Methods == {"GET", "POST"}
Paths == {"/health", "/api/journey-export", "/other"}
Emails == {Undef, "user@example.com"}
Passwords == {Undef, "secret"}

\* a session kept in one module-level variable, seen by every request
UpdateSharedSession(r, step) ==
  /\ req' = [o \in ReqIds |->
               IF o = r THEN step.q
               ELSE [req[o] EXCEPT !.authData = step.q.authData]]
  /\ log' = [log EXCEPT ![r] = step.g]

\* the locals of handleRequest and its callees belong to one call
Update(r, step) ==
  /\ req' = [req EXCEPT ![r] = step.q]
  /\ log' = [log EXCEPT ![r] = step.g]

\* a validation that looks at the email header only
MissingEmailOnly(email, password) == email = Undef

\* !email || !password: an absent header reads null, an empty one ""
MissingCredentials(email, password) == email = Undef \/ password = Undef

\* a router that looks at the path only
RouteByPathOnly(method, path) ==
  IF path = "/health" THEN "health"
  ELSE IF path = "/api/journey-export" THEN "export"
  ELSE "notFound"

\* the router of handleRequest
Route(method, path) ==
  IF path = "/health" /\ method = "GET" THEN "health"
  ELSE IF path = "/api/journey-export" /\ method = "GET" THEN "export"
  ELSE "notFound"

\* handleRequest up to the first await: routing, validation, login sent
Arrive(r) ==
  /\ r \in clients
  /\ req[r].pc = "idle"
  /\ \E method \in Methods, path \in Paths, email \in Emails, password \in Passwords :
       LET q == [req[r] EXCEPT !.method = method, !.path = path,
                               !.email = email, !.password = password]
           g == [log[r] EXCEPT !.arrivedAt = now]
       IN Update(r,
            IF Route(method, path) = "health"
            THEN Respond(q, g, HealthOk)
            ELSE IF Route(method, path) = "export"
            THEN IF MissingCredentials(email, password)
                 THEN Respond(q, g, JsonError(MISSING_CREDENTIALS_STATUS,
                                              <<"Email and password are required">>))
                 ELSE Step([q EXCEPT !.pc = "login", !.wake = now + lat],
                           [g EXCEPT !.login = @ + 1])
            ELSE Respond(q, g, JsonError(404, <<"Not found">>)))
  /\ UNCHANGED <<now, store, shape, lat, nextId, clients, fm, dr>>

\* login's fetch settles; on success resolveExportUrl runs up to its
\* first await (the initial listProcesses)
LoginReturn(r) ==
  /\ req[r].pc = "login"
  /\ CanResume(r)
  /\ LET q == req[r]
         g == log[r]
         t == q.wake
     IN /\ now' = t
        /\ \/ \E f \in Failures :
                Update(r, Throw(q, [g EXCEPT !.loginOutcome = "rejected"],
                                LoginFailed(f.status, f.body)))
           \/ Update(r, Throw(q, [g EXCEPT !.loginOutcome = "noCookie"], NoSessionCookie))
           \/ \E uid \in {"cco-1", Undef} :
                LET q1 == [q EXCEPT !.authData = [playSessionCookie |-> "PLAY_SESSION=abc",
                                                  empresaUid |-> uid],
                                    !.processSearchStart = SearchStart(t),
                                    !.processSearchEnd = SearchEnd(t)]
                IN Update(r,
                     IF uid = Undef
                     THEN Throw(q1, [g EXCEPT !.resolution = "failed",
                                              !.loginOutcome = "noTenant"],
                                TenantTypeError)
                     ELSE Step([q1 EXCEPT !.pc = "list0", !.wake = t + lat],
                               [g EXCEPT !.list = @ + 1, !.loginOutcome = "ok"]))
  /\ UNCHANGED <<store, shape, lat, nextId, clients, fm, dr>>

\* the initial listProcesses settles
InitialListReturn(r) ==
  /\ req[r].pc = "list0"
  /\ CanResume(r)
  /\ LET q == req[r]
         g == log[r]
         t == q.wake
     IN /\ now' = t
        /\ \/ \E f \in Failures :
                Update(r, OnListError(q, [g EXCEPT !.listError = ListFailed(f.status, f.body)],
                                      ListFailed(f.status, f.body)))
           \/ Update(r, AfterInitialList(q, g, ListResponse(store, t), t))
  /\ UNCHANGED <<store, shape, lat, nextId, clients, fm, dr>>

\* exportJourney settles; an accepted trigger makes the platform create a job
TriggerReturn(r) ==
  /\ req[r].pc = "trigger"
  /\ CanResume(r)
  /\ LET q == req[r]
         g == log[r]
         t == q.wake
     IN /\ now' = t
        /\ \/ /\ \E f \in Failures :
                   Update(r, Throw(q, [g EXCEPT !.resolution = "failed",
                                                !.triggerError = ExportFailed(f.status, f.body)],
                                   ExportFailed(f.status, f.body)))
              /\ UNCHANGED <<store, nextId>>
           \/ \E delay \in CreateDelays, jsonType \in BOOLEAN, parses \in BOOLEAN :
                /\ store' = Append(store, MkJob(shape, nextId, PROCESS_NAME,
                                                t + delay, "SCHEDULED", Undef))
                /\ nextId' = nextId + 1
                /\ LET g1 == [g EXCEPT !.triggeredJob = nextId]
                   IN Update(r,
                        IF jsonType /\ ~parses
                        THEN Throw(q, [g1 EXCEPT !.resolution = "failed",
                                                 !.triggerError = JsonParseError],
                                   JsonParseError)
                        ELSE EnterPoll(q, g1, t))
  /\ UNCHANGED <<shape, lat, clients, fm, dr>>

\* a timer of pollForCompletion fires: the loop condition, then listProcesses sent
PollLoop(r) ==
  /\ req[r].pc \in {"pollDelay", "pollWait"}
  /\ CanResume(r)
  /\ now' = req[r].wake
  /\ Update(r, LoopTop(req[r], log[r], req[r].wake))
  /\ UNCHANGED <<store, shape, lat, nextId, clients, fm, dr>>

\* a listProcesses of the poll loop settles
PollListReturn(r) ==
  /\ req[r].pc = "pollList"
  /\ CanResume(r)
  /\ LET q == req[r]
         g == log[r]
         t == q.wake
     IN /\ now' = t
        /\ \/ \E f \in Failures :
                Update(r, OnListError(q, [g EXCEPT !.listError = ListFailed(f.status, f.body)],
                                      ListFailed(f.status, f.body)))
           \/ Update(r, AfterPollList(q, g, ListResponse(store, t), t))
  /\ UNCHANGED <<store, shape, lat, nextId, clients, fm, dr>>

\* the fetch of the file settles
DownloadReturn(r) ==
  /\ req[r].pc = "download"
  /\ CanResume(r)
  /\ now' = req[r].wake
  /\ \/ Update(r, AfterDownload(req[r], [log[r] EXCEPT !.fileFetch = "ok"],
                                 TRUE, "200", req[r].wake))
     \/ \E status \in {"403"} :
          Update(r, AfterDownload(req[r], [log[r] EXCEPT !.fileFetch = "failed"],
                                  FALSE, status, req[r].wake))
  /\ UNCHANGED <<store, shape, lat, nextId, clients, fm, dr>>

\* fileResponse.arrayBuffer() settles: the whole body is in fileBuffer, the
\* hashes are computed and the response is built from fileBuffer; a
\* connection that breaks while the body is read rejects the await
BodyReturn(r) ==
  /\ req[r].pc = "body"
  /\ CanResume(r)
  /\ now' = req[r].wake
  /\ \/ LET q == [req[r] EXCEPT !.fileBuffer = req[r].fileUrl]
        IN Update(r, Respond(q, log[r], FileResponse(q.fileBuffer)))
     \/ Update(r, Throw(req[r], log[r], BodyReadFailed))
  /\ UNCHANGED <<store, shape, lat, nextId, clients, fm, dr>>

\* the platform moves a job along its lifecycle
JobProgress(i) ==
  /\ \E r \in ReqIds : Suspended(r)
  /\ store[i].createDate <= now
  /\ \E st \in NextStates(StateOf(store[i])),
        url \in {FileUrl, Undef} :
       /\ url = FileUrl => st = "COMPLETED"
       /\ store' = [store EXCEPT ![i] =
                      MkJob(shape, @.id, @.name, @.createDate, st, url)]
  /\ UNCHANGED <<now, shape, lat, nextId, clients, req, log, fm, dr>>

Next ==
  \/ \E r \in ReqIds : Arrive(r)
  \/ \E r \in ReqIds : LoginReturn(r)
  \/ \E r \in ReqIds : InitialListReturn(r)
  \/ \E r \in ReqIds : TriggerReturn(r)
  \/ \E r \in ReqIds : PollLoop(r)
  \/ \E r \in ReqIds : PollListReturn(r)
  \/ \E r \in ReqIds : DownloadReturn(r)
  \/ \E r \in ReqIds : BodyReturn(r)
  \/ \E i \in DOMAIN store : JobProgress(i)

Spec == Init /\ [][Next]_vars

\* every upstream call of a request settles (returns or fails), every body
\* read settles and every timer fires
Resume(r) ==
  \/ LoginReturn(r) \/ InitialListReturn(r) \/ TriggerReturn(r)
  \/ PollLoop(r) \/ PollListReturn(r)
  \/ DownloadReturn(r) \/ BodyReturn(r)

\* the runs of Init with upstream latency and the top-level job shape
InitLive ==
  /\ Init
  /\ shape = "top"
  /\ lat = LatencyMs

SpecLive == InitLive /\ [][Next]_vars /\ \A r \in ReqIds : WF_vars(Resume(r))

\* ---------------------------------------------------------------------
\* Two requests in one process: both clients arrive, at any moments; the
\* run is followed for RaceHorizonMs of clock time
\* ---------------------------------------------------------------------
RaceHorizonMs == 16000

InitRace ==
  /\ now = StartClock
  /\ shape = "top" /\ lat = LatencyMs
  /\ store = <<>> /\ nextId = 2
  /\ clients = ReqIds
  /\ req = [r \in ReqIds |-> InitReq]
  /\ log = [r \in ReqIds |-> InitLog]
  /\ fm = FmOff
  /\ dr = DrOff

NextRace ==
  /\ now < StartClock + RaceHorizonMs
  /\ Next

SpecRace == InitRace /\ [][NextRace]_vars

\* ---------------------------------------------------------------------
\* The matcher on its own: findProcessByNameAndDate applied to bounded
\* job lists, names and windows
\* ---------------------------------------------------------------------
\* creation times below, at and above the bounds of the window
MatchDates == {StartClock - 1, StartClock, StartClock + 1, StartClock + 2}
MatchWindows == {<<StartClock, StartClock + 1>>, <<StartClock, StartClock>>,
                 <<StartClock + 1, StartClock>>}
MatchNames == {PROCESS_NAME, OtherName}

\* the lists of n jobs; a job's identifier is its position in the list
JobLists(n) ==
  {[i \in 1..n |-> MkJob("top", i, c[i][1], c[i][2], "COMPLETED", Undef)] :
     c \in [1..n -> MatchNames \X MatchDates]}

InitMatch ==
  /\ InitPlatform
  /\ store = <<>> /\ shape = "top" /\ lat = 0
  /\ clients = {}
  /\ req = [r \in ReqIds |-> InitReq]
  /\ log = [r \in ReqIds |-> InitLog]
  /\ dr = DrOff
  /\ \E n \in 0..MaxListLen :
       \E list \in JobLists(n), name \in MatchNames, w \in MatchWindows :
         fm = [FmOff EXCEPT !.pc = "args", !.list = list, !.listAfter = list,
                            !.name = name, !.start = w[1], !.end = w[2]]

\* one call findProcessByNameAndDate(list, name, start, end); listAfter
\* is the caller's array once the call has returned
MatchCall ==
  /\ fm.pc = "args"
  /\ fm' = [fm EXCEPT !.pc = "done",
                      !.result = findProcessByNameAndDate(fm.list, fm.name,
                                                          fm.start, fm.end),
                      !.listAfter = ArraysAfterFind(fm.list, fm.name,
                                                    fm.start, fm.end).processList]
  /\ UNCHANGED <<now, store, shape, lat, nextId, clients, req, log, dr>>

\* a second call with the same array and the same other arguments
MatchCallAgain ==
  /\ fm.pc = "done"
  /\ fm' = [fm EXCEPT !.pc = "again",
                      !.resultAgain = findProcessByNameAndDate(fm.listAfter, fm.name,
                                                               fm.start, fm.end),
                      !.listAfter = ArraysAfterFind(fm.listAfter, fm.name,
                                                    fm.start, fm.end).processList]
  /\ UNCHANGED <<now, store, shape, lat, nextId, clients, req, log, dr>>

NextMatch == MatchCall \/ MatchCallAgain

SpecMatch == InitMatch /\ [][NextMatch]_vars

\* ---------------------------------------------------------------------
\* getYesterdayDateRange on its own: the Date arithmetic in local time,
\* applied at bounded instants in bounded time zones
\* ---------------------------------------------------------------------
HOUR_MS == 60 * 60 * 1000
DAY_MS == 24 * HOUR_MS
\* setHours(23, 59, 59, 999) as milliseconds of the day
END_OF_DAY_MS == 23 * HOUR_MS + 59 * 60 * 1000 + 59 * 1000 + 999

\* the local UTC offset in force at the instant u
Offset(tz, u) == IF u < tz.at THEN tz.before ELSE tz.after
\* the local wall clock at the instant u, in ms (getDate, getHours, ...)
LocalOf(tz, u) == u + Offset(tz, u)
\* the instant of a local wall clock reading: the earlier instant when
\* the reading occurs twice; a reading skipped by the change is taken
\* with the offset before the change
UtcOf(tz, local) ==
  LET a == local - tz.before
      b == local - tz.after
  IN IF a < tz.at THEN a
     ELSE IF b >= tz.at THEN b
     ELSE a

\* a day taken off as 24 hours of elapsed time
SubtractElapsedDay(tz, u) == u - DAY_MS

\* date.setDate(date.getDate() - 1): the day before, same wall clock time
SetDateToDayBefore(tz, u) == UtcOf(tz, LocalOf(tz, u) - DAY_MS)

\* date.setHours(h, m, s, ms): same local day, wall clock time msOfDay
SetHours(tz, u, msOfDay) ==
  UtcOf(tz, LocalOf(tz, u) - (LocalOf(tz, u) % DAY_MS) + msOfDay)

\* toISOString: calendar day and time of day in UTC, to the millisecond
ToISOString(u) == <<u \div DAY_MS, u % DAY_MS>>
\* the instant an ISO string denotes
FromISOString(iso) == iso[1] * DAY_MS + iso[2]

getYesterdayDateRange(tz, t) ==
  LET yesterday == SetHours(tz, SetDateToDayBefore(tz, t), 0)
      yesterdayEnd == SetHours(tz, yesterday, END_OF_DAY_MS)
  IN [startDate |-> ToISOString(yesterday),
      endDate |-> ToISOString(yesterdayEnd),
      startTimestamp |-> yesterday,
      endTimestamp |-> yesterdayEnd]

\* days of instants tried, from DrBase on
DrDays == 4
DrBase == 10 * DAY_MS
\* the day on which the offset changes
ChangeDay == DrBase + 2 * DAY_MS
\* every hour of DrDays days, at the full hour, half past and 1 ms
\* before the next
DrInstants ==
  {DrBase + h * HOUR_MS + f :
     h \in 0..(DrDays * 24 - 1), f \in {0, HOUR_MS \div 2, HOUR_MS - 1}}

\* UTC; a fixed offset; clocks put forward and back at local 00:00
\* (UTC-3 / UTC-2), forward and back at local 02:00 (UTC-5 / UTC-4),
\* forward at 01:00 UTC (UTC+1 / UTC+2)
TzRules ==
  {UtcZone,
   [at |-> ChangeDay, before |-> -3 * HOUR_MS, after |-> -3 * HOUR_MS],
   [at |-> ChangeDay + 3 * HOUR_MS, before |-> -3 * HOUR_MS, after |-> -2 * HOUR_MS],
   [at |-> ChangeDay + 2 * HOUR_MS, before |-> -2 * HOUR_MS, after |-> -3 * HOUR_MS],
   [at |-> ChangeDay + 7 * HOUR_MS, before |-> -5 * HOUR_MS, after |-> -4 * HOUR_MS],
   [at |-> ChangeDay + 6 * HOUR_MS, before |-> -4 * HOUR_MS, after |-> -5 * HOUR_MS],
   [at |-> ChangeDay + HOUR_MS, before |-> HOUR_MS, after |-> 2 * HOUR_MS]}

InitDate ==
  /\ now \in DrInstants
  /\ store = <<>> /\ shape = "top" /\ lat = 0 /\ nextId = 2
  /\ clients = {}
  /\ req = [r \in ReqIds |-> InitReq]
  /\ log = [r \in ReqIds |-> InitLog]
  /\ fm = FmOff
  /\ \E tz \in TzRules : dr = [DrOff EXCEPT !.pc = "args", !.tz = tz]

\* one call getYesterdayDateRange() at the instant now
DateCall ==
  /\ dr.pc = "args"
  /\ LET range == getYesterdayDateRange(dr.tz, now)
     IN dr' = [dr EXCEPT !.pc = "done",
                         !.startDate = range.startDate,
                         !.endDate = range.endDate,
                         !.startTimestamp = range.startTimestamp,
                         !.endTimestamp = range.endTimestamp]
  /\ UNCHANGED <<now, store, shape, lat, nextId, clients, req, log, fm>>

NextDate == DateCall

SpecDate == InitDate /\ [][NextDate]_vars

\* =====================================================================
\* Properties
\* =====================================================================
Terminal == {"COMPLETED", "ERROR", "CANCELLED"}
InFlight == {"SCHEDULED", "WAITING", "PROCESSING"}
\* the state of the job matched at the initial listing ("none": no match,
\* "unlisted": the initial listing has not returned a list)
InitialState(r) ==
  IF ~log[r].initialListed THEN "unlisted"
  ELSE IF req[r].existingProcess = null THEN "none"
  ELSE StateOf(req[r].existingProcess)
Done(r) == req[r].pc = "done"

\* C1: when the job matched at the initial listing is COMPLETED, the
\* resolution returns that job's result reference with no poller iteration:
\* one listJobs call in the request, no triggerExport, no timer.
C1_CompletedShortCircuit ==
  \A r \in ReqIds :
    InitialState(r) = "COMPLETED" =>
      /\ log[r].resolution = "resolved"
      /\ req[r].fileUrl = ResultUrlOf(req[r].existingProcess)
      /\ log[r].list = 1
      /\ log[r].trigger = 0
      /\ log[r].timers = 0
      /\ log[r].poller = "none" /\ log[r].pollListings = 0 /\ req[r].pollCount = 0

C1_Witness ==
  \E r \in ReqIds :
    /\ InitialState(r) = "COMPLETED"
    /\ Done(r)
    /\ req[r].response = FileResponse(FileUrl)

\* C2 (as claimed): triggerExport is called exactly when the initial
\* listing holds no matching job; a matching job, whatever its state,
\* means no export is triggered by the request.
C2_TriggerIffNoMatch ==
  \A r \in ReqIds :
    log[r].initialListed =>
      (log[r].trigger > 0 <=> InitialState(r) = "none")

\* C10: findMatch returns none unless an entry has exactly the requested
\* name and a creation time t with windowStart <= t <= windowEnd (an entry
\* at either bound counts), and a job it returns is an element of the
\* input list with that name and such a creation time.
C10_MatchSound ==
  fm.pc = "done" =>
    LET Eligible(j) == /\ j.name = fm.name
                       /\ fm.start <= j.createDate
                       /\ j.createDate <= fm.end
        some == \E i \in DOMAIN fm.list : Eligible(fm.list[i])
    IN /\ fm.result = null <=> ~some
       /\ fm.result # null =>
            /\ \E i \in DOMAIN fm.list : fm.list[i] = fm.result
            /\ Eligible(fm.result)

C10_Witness ==
  /\ fm.pc = "done"
  /\ fm.result # null
  /\ fm.start < fm.end
  /\ fm.result.createDate = fm.end
  /\ \E i \in DOMAIN fm.list :
       fm.list[i].name = fm.name /\ fm.list[i].createDate > fm.end
  /\ \E i \in DOMAIN fm.list :
       fm.list[i].name # fm.name /\ fm.list[i].createDate = fm.start

\* the result reference of a job, read at either nesting path
RefOf(job) == IF job.resultFileUrl # "" THEN job.resultFileUrl ELSE job.statusResultFileUrl
\* a poll listing returned a list in this step of request r
Observes(r) == log'[r].observations = log[r].observations + 1
\* request r takes a step
Steps(r) == req'[r] # req[r]
\* no upstream call is sent and no timer is set in this step of request r
NoCallNoTimer(r) ==
  /\ log'[r].list = log[r].list /\ log'[r].trigger = log[r].trigger
  /\ log'[r].download = log[r].download /\ log'[r].login = log[r].login
  /\ log'[r].timers = log[r].timers

\* C3: with no match at the initial listing the engine triggers one export
\* and polls; when the poller's observations are non-terminal ones (or no
\* match) followed by COMPLETED, the result is the result reference of the
\* job observed COMPLETED, after as many poller listings as observations
\* (WAITING, PROCESSING, COMPLETED: three listings).
C3_TriggerThenPoll ==
  \A r \in ReqIds :
    (InitialState(r) = "none" /\ log[r].poller # "none") =>
      /\ log[r].trigger = 1
      /\ log[r].poller = "returned" =>
           /\ req[r].process # null
           /\ StateOf(req[r].process) = "COMPLETED"
           /\ log[r].lastObs = "COMPLETED"
           /\ req[r].fileUrl = RefOf(req[r].process)
           /\ log[r].resolution = "resolved"
           /\ log[r].pollListings = log[r].observations
           /\ req[r].pollCount = log[r].observations
           /\ log[r].list = 1 + log[r].observations
      /\ log[r].trail = 3 =>
           /\ log[r].poller = "returned"
           /\ log[r].pollListings = 3

C3_Witness ==
  \E r \in ReqIds :
    /\ InitialState(r) = "none"
    /\ log[r].trail = 3
    /\ Done(r)
    /\ req[r].response = FileResponse(FileUrl)

\* C4: when the job matched at the initial listing is SCHEDULED, WAITING or
\* PROCESSING, no export is triggered and the poller runs with exactly the
\* job-search window of the initial match; the resolution is Resolved when
\* the poller returns a COMPLETED job and Failed when it times out or sees
\* a terminal failure.
C4_InFlightPolls ==
  \A r \in ReqIds :
    InitialState(r) \in InFlight =>
      /\ log[r].trigger = 0
      /\ log[r].poller # "none"
      /\ req[r].startTimestamp = req[r].processSearchStart
      /\ req[r].endTimestamp = req[r].processSearchEnd
      /\ req[r].existingProcess.createDate >= req[r].startTimestamp
      /\ req[r].existingProcess.createDate <= req[r].endTimestamp
      /\ log[r].poller = "returned" =>
           /\ log[r].resolution = "resolved"
           /\ StateOf(req[r].process) = "COMPLETED"
           /\ req[r].fileUrl = RefOf(req[r].process)
      /\ log[r].poller \in {"timeout", "failed"} =>
           /\ log[r].resolution = "failed"
           /\ Done(r)
           /\ req[r].response.status = 500 /\ ~req[r].response.success

C4_Witness ==
  \E r \in ReqIds :
    /\ InitialState(r) \in InFlight
    /\ log[r].poller = "returned"
    /\ req[r].pollCount >= 2
    /\ Done(r)
    /\ req[r].response = FileResponse(FileUrl)

\* C5 (as claimed): when the job matched at the initial listing is in state
\* ERROR, the request (no upstream call failing) ends with HTTP 500 and a
\* message that embeds "ERROR".
C5_InitialErrorFails ==
  \A r \in ReqIds :
    (/\ InitialState(r) = "ERROR"
     /\ Done(r)
     /\ log[r].listError = <<>> /\ log[r].triggerError = <<>>) =>
      /\ req[r].response.status = 500
      /\ Includes(req[r].response.error, "ERROR")

\* what the poller does in the step in which a listing shows it the
\* matched job (or none): fail at once on ERROR / CANCELLED with an error
\* carrying the state, return the job on COMPLETED, otherwise set one timer
\* of pollInterval
PollBranches(r) ==
  Observes(r) =>
    LET obs == log'[r].lastObs
    IN /\ obs \in {"ERROR", "CANCELLED"} =>
            /\ req'[r].pc = "done"
            /\ req'[r].response = JsonError(500, <<"Process failed with state:", obs>>)
            /\ log'[r].poller = "failed"
            /\ NoCallNoTimer(r)
       /\ obs = "COMPLETED" =>
            /\ log'[r].poller = "returned"
            /\ req'[r].process # null
            /\ StateOf(req'[r].process) = "COMPLETED"
            /\ req'[r].fileUrl = RefOf(req'[r].process)
            /\ log'[r].timers = log[r].timers
            /\ log'[r].list = log[r].list
       /\ obs \notin Terminal =>
            /\ req'[r].pc = "pollWait"
            /\ req'[r].wake = now' + POLL_INTERVAL_MS
            /\ log'[r].timers = log[r].timers + 1
            /\ log'[r].list = log[r].list
            /\ log'[r].poller = "running"
\* a request that has answered does nothing more
DoneIsFinal(r) == Done(r) => (req'[r] = req[r] /\ log'[r] = log[r])

\* C6 (as claimed): ERROR / CANCELLED fails the poller at once, COMPLETED
\* returns the job, and in every other case the poller waits one
\* pollInterval and lists again.
C6_WaitThenListAgain ==
  [][\A r \in ReqIds :
       /\ PollBranches(r)
       /\ DoneIsFinal(r)
       /\ (req[r].pc = "pollWait" /\ Steps(r)) =>
            /\ now' = req[r].wake
            /\ req'[r].pc = "pollList"
            /\ log'[r].list = log[r].list + 1]_vars

\* C6 (amended): as claimed, except that after the wait the poller lists
\* again only if less than maxWaitDuration has passed since it was entered;
\* otherwise it ends with the timeout error and makes no further listing.
C6_WaitThenListOrTimeout ==
  [][\A r \in ReqIds :
       /\ PollBranches(r)
       /\ DoneIsFinal(r)
       /\ (req[r].pc = "pollWait" /\ Steps(r)) =>
            /\ now' = req[r].wake
            /\ IF now' - req[r].startTime < MAX_POLL_TIME_MS
               THEN /\ req'[r].pc = "pollList"
                    /\ log'[r].list = log[r].list + 1
               ELSE /\ req'[r].pc = "done"
                    /\ req'[r].response = JsonError(500, PollingTimeout)
                    /\ NoCallNoTimer(r)]_vars

C6_Witness ==
  \E r \in ReqIds :
    /\ log[r].poller = "failed"
    /\ log[r].lastObs = "CANCELLED"
    /\ log[r].observations >= 2
    /\ log[r].timers = log[r].observations
    /\ req[r].response = JsonError(500, ProcessFailed("CANCELLED"))

\* C7 (as claimed): the poller raises the timeout error if no terminal
\* state is observed within maxWaitDuration of its entry (so a poller that
\* ended on an observed job observed it within that time), and never raises
\* it when COMPLETED was observed.
C7_TimeoutIffNoTerminalInTime ==
  \A r \in ReqIds :
    /\ log[r].poller \in {"returned", "failed"} =>
         log[r].pollExit - req[r].startTime <= MAX_POLL_TIME_MS
    /\ log[r].poller = "timeout" => log[r].lastObs \notin Terminal
    /\ log[r].lastObs = "COMPLETED" => log[r].poller = "returned"

\* C7 (amended): a loop check that finds maxWaitDuration elapsed since entry
\* raises the timeout error, and only such a check does; every listing is
\* started before that deadline, and a terminal state it shows ends the
\* poller with the job or the failure even when the answer arrives after the
\* deadline; the timeout is never raised once COMPLETED was observed.
C7_TimeoutAtLoopCheck ==
  /\ [](\A r \in ReqIds :
          /\ log[r].poller \in {"returned", "failed"} =>
               /\ log[r].lastObs \in Terminal
               /\ (log[r].pollExit - lat) - req[r].startTime < MAX_POLL_TIME_MS
          /\ log[r].poller = "timeout" =>
               /\ log[r].pollExit - req[r].startTime >= MAX_POLL_TIME_MS
               /\ log[r].lastObs \notin Terminal
               /\ req[r].response = JsonError(500, PollingTimeout)
          /\ req[r].pc = "pollList" => now - req[r].startTime < MAX_POLL_TIME_MS
          /\ log[r].lastObs = "COMPLETED" => log[r].poller = "returned")
  /\ [][\A r \in ReqIds :
          (/\ req[r].pc \in {"pollDelay", "pollWait"}
           /\ Steps(r)
           /\ req[r].wake - req[r].startTime >= MAX_POLL_TIME_MS) =>
            /\ log'[r].poller = "timeout"
            /\ req'[r].response = JsonError(500, PollingTimeout)]_vars

C7_Witness ==
  \E r \in ReqIds :
    /\ log[r].poller = "timeout"
    /\ lat = 0
    /\ log[r].observations = 120
    /\ log[r].pollExit - req[r].startTime = MAX_POLL_TIME_MS + 3000

\* C8: the poller issues no listing and does not end before initialDelay
\* has passed since its entry; and with upstream latency zero, a poller
\* that first sees COMPLETED at its k-th listing returns no later than
\* initialDelay + k * pollInterval after entry.
C8_DelayBounds ==
  \A r \in ReqIds :
    /\ log[r].pollListings >= 1 => now - req[r].startTime >= INITIAL_DELAY_MS
    /\ log[r].poller \in {"returned", "failed", "timeout"} =>
         log[r].pollExit - req[r].startTime >= INITIAL_DELAY_MS
    /\ (log[r].poller = "running" /\ log[r].pollListings = 0) =>
         /\ req[r].pc = "pollDelay"
         /\ req[r].wake = req[r].startTime + INITIAL_DELAY_MS
    /\ (lat = 0 /\ log[r].poller = "returned") =>
         log[r].pollExit - req[r].startTime
           <= INITIAL_DELAY_MS + req[r].pollCount * POLL_INTERVAL_MS

C8_Witness ==
  \E r \in ReqIds :
    /\ lat = 0
    /\ log[r].poller = "returned"
    /\ req[r].pollCount = 1
    /\ log[r].pollExit - req[r].startTime = INITIAL_DELAY_MS
    /\ \E i \in DOMAIN store :
         /\ store[i] = req[r].process
         /\ store[i].createDate < req[r].startTime

\* C9: an error of any listJobs call, the initial one or one of the poll
\* loop, ends the request at once: no call and no timer in that step or
\* after it, and the request answers with the failure made from that error.
C9_ListErrorAborts ==
  /\ [](\A r \in ReqIds :
          log[r].listError # <<>> =>
            /\ Done(r)
            /\ ~req[r].response.success
            /\ req[r].response.file = Undef
            /\ req[r].response.status \in {500, 401}
            /\ req[r].response.status = 500 => req[r].response.error = log[r].listError
            /\ log[r].download = 0)
  /\ [][\A r \in ReqIds :
          /\ (log[r].listError = <<>> /\ log'[r].listError # <<>>) => NoCallNoTimer(r)
          /\ DoneIsFinal(r)]_vars

C9_Witness ==
  \E r \in ReqIds :
    /\ log[r].listError # <<>>
    /\ log[r].observations = 2
    /\ log[r].pollListings = 3
    /\ req[r].response = JsonError(500, log[r].listError)

\* C11: when several entries of the list match, findMatch returns one of
\* them whose creation time is the greatest creation time among the
\* matching entries.
C11_ReturnsMostRecent ==
  (fm.pc = "done" /\ fm.result # null) =>
    /\ \E i \in DOMAIN fm.list : fm.list[i] = fm.result
    /\ \A i \in DOMAIN fm.list :
         (/\ fm.list[i].name = fm.name
          /\ fm.start <= fm.list[i].createDate
          /\ fm.list[i].createDate <= fm.end)
         => fm.list[i].createDate <= fm.result.createDate

\* three matching entries, the newest neither first nor alone
C11_Witness ==
  /\ fm.pc = "done"
  /\ fm.result # null
  /\ Len(fm.list) = 3
  /\ \A i \in DOMAIN fm.list :
       /\ fm.list[i].name = fm.name
       /\ fm.start <= fm.list[i].createDate
       /\ fm.list[i].createDate <= fm.end
  /\ fm.list[1].createDate < fm.result.createDate
  /\ fm.list[2].createDate = fm.result.createDate
  /\ fm.list[3].createDate = fm.result.createDate
  /\ fm.result.id = 2

\* a GET /api/journey-export that lacks the email or the password header
\* (or carries it empty)
LacksCredentials(r) ==
  /\ req[r].pc # "idle"
  /\ req[r].method = "GET" /\ req[r].path = "/api/journey-export"
  /\ (req[r].email = Undef \/ req[r].password = Undef)

\* C12 (as claimed): a request that lacks the email or the password is
\* answered with HTTP 400 and the JSON body
\* {"success": false, "error": "Email and password are required"}.
C12_MissingCredentials400 ==
  \A r \in ReqIds :
    LacksCredentials(r) =>
      req[r].response = JsonError(400, <<"Email and password are required">>)

\* C13: a request that lacks credentials makes no upstream call at all:
\* no login, no listJobs, no triggerExport, no download (and no timer);
\* it is answered at once.
C13_NoUpstreamCallWithoutCredentials ==
  \A r \in ReqIds :
    LacksCredentials(r) =>
      /\ Done(r)
      /\ req[r].response.success = FALSE
      /\ log[r].login = 0 /\ log[r].list = 0
      /\ log[r].trigger = 0 /\ log[r].download = 0
      /\ log[r].timers = 0

C13_Witness ==
  \E r \in ReqIds :
    /\ LacksCredentials(r)
    /\ req[r].email # Undef /\ req[r].password = Undef
    /\ Done(r)
    /\ req[r].response.error = <<"Email and password are required">>
    /\ log[r].login = 0

\* C14: when the upstream login answers with a non-success status, the
\* request is answered with HTTP 401 and the JSON body
\* {"success": false, "error": "Authentication failed: Invalid credentials"},
\* and no listJobs, triggerExport or download call is made.
C14_LoginRejected401 ==
  \A r \in ReqIds :
    log[r].loginOutcome = "rejected" =>
      /\ Done(r)
      /\ req[r].response =
           JsonError(401, <<"Authentication failed: Invalid credentials">>)
      /\ log[r].login = 1
      /\ log[r].list = 0 /\ log[r].trigger = 0 /\ log[r].download = 0
      /\ log[r].timers = 0

C14_Witness ==
  \E r \in ReqIds :
    /\ log[r].loginOutcome = "rejected"
    /\ req[r].email # Undef /\ req[r].password # Undef
    /\ req[r].response.status = 401
    /\ now = StartClock + LatencyMs

\* C15 (as claimed): when login answers with a success status but no
\* session token can be extracted, the request is answered with HTTP 401
\* like a request with bad credentials.
C15_NoSessionToken401 ==
  \A r \in ReqIds :
    log[r].loginOutcome = "noCookie" =>
      /\ Done(r)
      /\ req[r].response =
           JsonError(401, <<"Authentication failed: Invalid credentials">>)

\* the message of the listJobs or triggerExport call that was answered
\* with a non-success status in request r (<<>>: no such call)
UpstreamFailure(r) ==
  IF log[r].listError # <<>> THEN log[r].listError
  ELSE IF log[r].triggerError # <<>> /\ log[r].triggerError # JsonParseError
       THEN log[r].triggerError
       ELSE <<>>

\* C16 (as claimed): when listJobs or triggerExport answers with a
\* non-success status, whatever the upstream status code and body, the
\* request is answered with HTTP 500 (never 401) and a JSON body with
\* success false and a message carrying the upstream status code and body.
C16_UpstreamFailure500 ==
  \A r \in ReqIds :
    UpstreamFailure(r) # <<>> =>
      /\ Done(r)
      /\ req[r].response.status = 500
      /\ req[r].response.success = FALSE
      /\ req[r].response.error = UpstreamFailure(r)

\* C17: every response of /api/journey-export other than the 200 carries
\* JSON with success false and a non-empty error text and no file bytes;
\* file bytes are sent only in a 200 response, after authentication, the
\* resolution and the GET of the file all succeeded; no failure path
\* returns any part of the file.
C17_FileOnlyOnSuccess ==
  \A r \in ReqIds :
    req[r].path = "/api/journey-export" =>
      /\ (Done(r) /\ req[r].response.status # 200) =>
            /\ req[r].response.success = FALSE
            /\ req[r].response.error # <<>>
            /\ req[r].response.file = Undef
      /\ req[r].response.file # Undef =>
            /\ Done(r)
            /\ req[r].response.status = 200
            /\ req[r].response.file = req[r].fileUrl
            /\ log[r].loginOutcome = "ok"
            /\ log[r].resolution = "resolved"
            /\ log[r].fileFetch = "ok"
      /\ (Done(r) /\ req[r].response.status = 200) => req[r].response.file # Undef

\* the GET of the file is refused after a successful resolution
C17_Witness ==
  \E r \in ReqIds :
    /\ Done(r)
    /\ log[r].resolution = "resolved"
    /\ log[r].fileFetch = "failed"
    /\ req[r].response = JsonError(500, DownloadFailed("403"))

\* C20 (as claimed): the file is forwarded as a stream; at no point does
\* the service hold the complete file body in memory.
C20_NeverBuffersWholeFile ==
  \A r \in ReqIds : req[r].fileBuffer = Undef

\* C18 (as claimed): every listJobs and triggerExport call made after
\* login carries the session token and the tenant identifier of the login
\* response; when the login body lacks the tenant identifier the request
\* fails as an authentication error (HTTP 401) and no upstream call is
\* made without it.
C18_TenantRequired ==
  \A r \in ReqIds :
    /\ (log[r].list > 0 \/ log[r].trigger > 0) =>
          /\ req[r].authData.playSessionCookie # Undef
          /\ req[r].authData.empresaUid # Undef
    /\ log[r].loginOutcome = "noTenant" =>
          /\ Done(r)
          /\ log[r].list = 0 /\ log[r].trigger = 0 /\ log[r].download = 0
          /\ req[r].response =
               JsonError(401, <<"Authentication failed: Invalid credentials">>)

\* the data window handed to exportJourney, as instants
WindowStart == FromISOString(dr.startDate)
WindowEnd == FromISOString(dr.endDate)
\* the local calendar day before the day of the call
DayBefore == (LocalOf(dr.tz, now) \div DAY_MS) - 1

\* C19 (as claimed): the data window starts at local midnight of the
\* previous calendar day and end - start is exactly 86 399 999 ms, also
\* on days on which the local UTC offset changes.
C19_WindowIsDayMinusOneMs ==
  dr.pc = "done" =>
    /\ LocalOf(dr.tz, WindowStart) = DayBefore * DAY_MS
    /\ WindowEnd - WindowStart = 86399999

\* C19 (amended): the window starts on the previous local calendar day at
\* 00:00:00.000 (at the first instant after it when the clocks skip
\* midnight) and ends where that day's wall clock reads 23:59:59.999;
\* end - start is 86 399 999 ms less the change of the local UTC offset
\* between the instant before start and end, so exactly 86 399 999 ms
\* when the offset does not change in the window.
C19_WindowIsLocalDay ==
  dr.pc = "done" =>
    /\ WindowStart = dr.startTimestamp /\ WindowEnd = dr.endTimestamp
    /\ LocalOf(dr.tz, WindowStart) \div DAY_MS = DayBefore
    /\ \/ LocalOf(dr.tz, WindowStart) % DAY_MS = 0
       \/ /\ WindowStart = dr.tz.at
          /\ LocalOf(dr.tz, WindowStart - 1) = DayBefore * DAY_MS - 1
    /\ LocalOf(dr.tz, WindowEnd) = DayBefore * DAY_MS + 86399999
    /\ WindowEnd - WindowStart =
         86399999 - (Offset(dr.tz, WindowEnd) - Offset(dr.tz, WindowStart - 1))
    /\ (dr.tz.at < WindowStart \/ dr.tz.at > WindowEnd) =>
         WindowEnd - WindowStart = 86399999

\* the clocks are put forward inside the window: 23 hours less 1 ms
C19_Witness ==
  /\ dr.pc = "done"
  /\ WindowStart < dr.tz.at /\ dr.tz.at < WindowEnd
  /\ dr.tz.after - dr.tz.before = HOUR_MS
  /\ LocalOf(dr.tz, WindowStart) = DayBefore * DAY_MS
  /\ WindowEnd - WindowStart = 82799999

\* C21: nothing excludes two requests from each other around "trigger if
\* absent": a request whose initial listing shows no match calls
\* triggerExport whatever the other request is doing, and every accepted
\* trigger creates a job of its own; so two requests that both list
\* before either one's job is visible both trigger and two jobs exist.
C21_BothTrigger ==
  /\ \A r \in ReqIds :
       InitialState(r) = "none" => log[r].trigger = 1
  /\ Cardinality({r \in ReqIds : log[r].triggeredJob # 0}) = Len(store)
  /\ \A r \in ReqIds :
       log[r].triggeredJob # 0 =>
         \E i \in DOMAIN store :
           /\ store[i].id = log[r].triggeredJob
           /\ store[i].name = PROCESS_NAME

C21_Witness ==
  /\ \A r \in ReqIds :
       /\ InitialState(r) = "none"
       /\ log[r].trigger = 1
       /\ log[r].triggeredJob # 0
  /\ log["r1"].triggeredJob # log["r2"].triggeredJob
  /\ Len(store) = 2
  /\ store[1].name = PROCESS_NAME /\ store[2].name = PROCESS_NAME

\* C22: while a request is suspended (a wait of the poller, an upstream
\* call, the relay of the file) another request can be accepted, and
\* no step of one request changes the locals or the history of another:
\* session, search window and poll counter are per request.
C22_RequestsIndependent ==
  /\ [](\A r \in ReqIds : \A o \in ReqIds \ {r} :
         (Suspended(r) /\ req[o].pc = "idle") => ENABLED Arrive(o))
  /\ [][\A r \in ReqIds : \A o \in ReqIds \ {r} :
          (req'[r] # req[r] \/ log'[r] # log[r]) =>
            (req'[o] = req[o] /\ log'[o] = log[o])]_vars

\* r2 arrived after r1 and went from login to the file response while
\* r1, back from its poller, awaits the file; their search windows differ
C22_Witness ==
  /\ log["r2"].arrivedAt > log["r1"].arrivedAt
  /\ req["r1"].pc = "download"
  /\ req["r1"].pollCount = 1
  /\ Done("r2")
  /\ req["r2"].response = FileResponse(FileUrl)
  /\ req["r2"].pollCount = 0
  /\ req["r2"].processSearchStart # req["r1"].processSearchStart

\* C23: every request other than GET /health and GET /api/journey-export
\* (a non-GET method on either path included) is answered with HTTP 404
\* and the JSON body {"success": false, "error": "Not found"}, without
\* any upstream call.
C23_UnknownRoute404 ==
  \A r \in ReqIds :
    (/\ req[r].pc # "idle"
     /\ ~(req[r].method = "GET" /\ req[r].path = "/health")
     /\ ~(req[r].method = "GET" /\ req[r].path = "/api/journey-export")) =>
      /\ Done(r)
      /\ req[r].response = JsonError(404, <<"Not found">>)
      /\ log[r].login = 0 /\ log[r].list = 0
      /\ log[r].trigger = 0 /\ log[r].download = 0
      /\ log[r].timers = 0

\* a POST to the export path with both credentials
C23_Witness ==
  \E r \in ReqIds :
    /\ Done(r)
    /\ req[r].method = "POST" /\ req[r].path = "/api/journey-export"
    /\ req[r].email # Undef /\ req[r].password # Undef
    /\ req[r].response.status = 404

\* C24: findMatch is pure: it leaves the job list passed to it as it was
\* (same elements, same order), and a second call with equal arguments
\* returns the same job.
C24_MatchPure ==
  /\ fm.pc \in {"done", "again"} => fm.listAfter = fm.list
  /\ fm.pc = "again" => fm.resultAgain = fm.result

\* three matches listed oldest first, which the sort inside reorders
C24_Witness ==
  /\ fm.pc = "again"
  /\ Len(fm.list) = 3
  /\ \A i \in DOMAIN fm.list :
       /\ fm.list[i].name = fm.name
       /\ fm.start <= fm.list[i].createDate
       /\ fm.list[i].createDate <= fm.end
  /\ fm.list[1].createDate < fm.list[3].createDate
  /\ fm.result = fm.list[3]
  /\ fm.resultAgain = fm.list[3]
  /\ fm.listAfter = fm.list

\* C25: provided every upstream call settles and every timer fires, every
\* request to /api/journey-export gets a response, and just one: whatever
\* the jobs' states and the listings, the poller stops at the latest at
\* its maxWaitDuration check, and an answered request does nothing more.
C25_EveryRequestAnswered ==
  /\ \A r \in ReqIds :
       (req[r].pc # "idle" /\ req[r].path = "/api/journey-export") ~> Done(r)
  /\ [][\A r \in ReqIds : DoneIsFinal(r)]_vars

\* a request answered with the timeout after the last loop check
C25_Witness ==
  \E r \in ReqIds :
    /\ Done(r)
    /\ req[r].path = "/api/journey-export"
    /\ req[r].response = JsonError(500, PollingTimeout)
    /\ now - req[r].startTime >= MAX_POLL_TIME_MS

\* inside the poller a job seen in an unknown state is waited for: the
\* poller goes on, or ends later by its timeout (or a failed listing)
UnknownWaitsInPoller ==
  \A r \in ReqIds :
    (log[r].lastObs = UnknownState /\ log[r].listError = <<>>) =>
      log[r].poller \in {"running", "timeout"}

\* C26 (as claimed): a matched job whose state is none of the six known
\* values is treated as non-terminal, like SCHEDULED / WAITING /
\* PROCESSING, at the initial check and inside the poller: the request
\* polls for it and neither fails, returns nor triggers because of it.
C26_UnknownStateIsPolled ==
  /\ \A r \in ReqIds :
       InitialState(r) = UnknownState =>
         /\ log[r].trigger = 0
         /\ log[r].poller # "none"
  /\ UnknownWaitsInPoller

\* C27 (as claimed): after every success-status answer to triggerExport,
\* JSON or empty body, whatever its content type, the trigger counts as
\* done and the poller is entered; the body never fails the resolution.
C27_TriggerBodyIgnored ==
  \A r \in ReqIds :
    log[r].triggeredJob # 0 =>
      /\ log[r].triggerError = <<>>
      /\ log[r].poller # "none"
      /\ log[r].timers >= 1

Authenticating(r) ==
  /\ req[r].pc # "idle"
  /\ req[r].method = "GET" /\ req[r].path = "/api/journey-export"
  /\ req[r].email # Undef /\ req[r].password # Undef

\* C29: in every request (that reaches the upstream) the upstream calls
\* come in a fixed order: login once and before any other call; the
\* first listJobs before any triggerExport; triggerExport at most once,
\* after no poller listing and settled before the first one; the file GET
\* at most once and only when the resolution gave a result reference; no
\* call once the response is produced.
C29_CallOrder ==
  /\ [](\A r \in ReqIds :
         /\ log[r].login <= 1 /\ log[r].trigger <= 1 /\ log[r].download <= 1
         /\ Authenticating(r) <=> log[r].login = 1
         /\ (log[r].list > 0 \/ log[r].trigger > 0 \/ log[r].download > 0) =>
              (log[r].login = 1 /\ log[r].loginOutcome = "ok")
         /\ log[r].trigger > 0 => (log[r].list >= 1 /\ log[r].initialListed)
         /\ log[r].download > 0 =>
              (log[r].resolution = "resolved" /\ req[r].fileUrl # Undef))
  /\ [][\A r \in ReqIds :
          /\ log'[r].login > log[r].login =>
               (log[r].list = 0 /\ log[r].trigger = 0 /\ log[r].download = 0)
          /\ log'[r].list > log[r].list => req[r].pc # "trigger"
          /\ log'[r].trigger > log[r].trigger =>
               (log[r].pollListings = 0 /\ log[r].list = 1 /\ req[r].pc = "list0")
          /\ log'[r].download > log[r].download =>
               (req[r].pc \in {"list0", "pollList"} /\ req'[r].pc = "download")
          /\ DoneIsFinal(r)]_vars

\* login, listing, trigger, three poller listings, file GET, response
C29_Witness ==
  \E r \in ReqIds :
    /\ Done(r)
    /\ log[r].login = 1 /\ log[r].trigger = 1
    /\ log[r].pollListings = 3 /\ log[r].list = 4
    /\ log[r].download = 1
    /\ req[r].response = FileResponse(FileUrl)

\* the request ended with the poller's job-failure error
JobFailure(r) ==
  /\ Done(r)
  /\ log[r].poller = "failed"
  /\ \E st \in {"ERROR", "CANCELLED"} :
       req[r].response = JsonError(500, ProcessFailed(st))

\* C30 (as claimed): once the request has triggered a new export, the
\* resolution fails with a job-failure error only because of a job
\* created at or after that trigger; a job already in ERROR or CANCELLED
\* before the trigger never makes the poller fail the request.
C30_OnlyNewJobFails ==
  \A r \in ReqIds :
    (log[r].triggeredJob # 0 /\ JobFailure(r)) =>
      /\ req[r].process # null
      /\ req[r].process.id = log[r].triggeredJob

\* the job the resolution of request r ended on
EndedOn(r) ==
  IF log[r].poller = "returned" THEN req[r].process ELSE req[r].existingProcess

\* C31: when the COMPLETED job the resolution ends on has no result
\* reference at either nesting path (top level or under status), the
\* request fails with HTTP 500 and the message "Export completed but no
\* file URL was returned" and no file GET is issued; with a reference at
\* either path the file GET is issued.
C31_NoResultReference500 ==
  \A r \in ReqIds :
    log[r].resolution = "resolved" =>
      /\ EndedOn(r) # null
      /\ EndedOn(r).state = "COMPLETED" \/ EndedOn(r).statusState = "COMPLETED"
      /\ IF EndedOn(r).resultFileUrl = Undef /\ EndedOn(r).statusResultFileUrl = Undef
         THEN /\ Done(r)
              /\ req[r].response =
                   JsonError(500, <<"Export completed but no file URL was returned">>)
              /\ log[r].download = 0
              /\ log[r].fileFetch = "none"
         ELSE /\ log[r].download = 1
              /\ req[r].response.error # NoFileUrl

\* the poller returned a COMPLETED job that has no reference
C31_Witness ==
  \E r \in ReqIds :
    /\ log[r].poller = "returned"
    /\ req[r].process.resultFileUrl = Undef
    /\ req[r].process.statusResultFileUrl = Undef
    /\ req[r].response = JsonError(500, NoFileUrl)
    /\ log[r].download = 0

\* C32: the job-search window is computed once per request, before the
\* initial listing, as [now - 2 hours, now + 5 minutes]; every iteration
\* of the poller matches against exactly those bounds, so a job created
\* later than 5 minutes after the resolution started is never matched,
\* although polling goes on for up to 10 minutes.
C32_SearchWindowFixed ==
  /\ [](\A r \in ReqIds :
         /\ log[r].poller # "none" =>
              /\ req[r].startTimestamp = req[r].processSearchStart
              /\ req[r].endTimestamp = req[r].processSearchEnd
         /\ req[r].existingProcess # null =>
              /\ req[r].processSearchStart <= req[r].existingProcess.createDate
              /\ req[r].existingProcess.createDate <= req[r].processSearchEnd
         /\ req[r].process # null =>
              /\ req[r].processSearchStart <= req[r].process.createDate
              /\ req[r].process.createDate <= req[r].processSearchEnd)
  /\ [][\A r \in ReqIds :
          /\ (log[r].loginOutcome = "none" /\ log'[r].loginOutcome = "ok") =>
               /\ req'[r].processSearchStart = now' - 7200000
               /\ req'[r].processSearchEnd = now' + 300000
               /\ log[r].list = 0
          /\ log[r].loginOutcome = "ok" =>
               /\ req'[r].processSearchStart = req[r].processSearchStart
               /\ req'[r].processSearchEnd = req[r].processSearchEnd
               /\ log[r].poller # "none" =>
                    /\ req'[r].startTimestamp = req[r].startTimestamp
                    /\ req'[r].endTimestamp = req[r].endTimestamp]_vars

\* the triggered job was created 5 min 1 s after the trigger: listed for
\* minutes, never matched, and the poller ran into its timeout
C32_Witness ==
  \E r \in ReqIds :
    /\ log[r].poller = "timeout"
    /\ log[r].observations > 100
    /\ log[r].lastObs = "none"
    /\ req[r].process = null
    /\ \E i \in DOMAIN store :
         /\ store[i].id = log[r].triggeredJob
         /\ store[i].name = PROCESS_NAME
         /\ store[i].createDate > req[r].processSearchEnd
         /\ store[i].createDate < log[r].pollExit - 4 * 60 * 1000

\* C33: one run of the poller issues at most
\* ceil((maxWaitDuration - initialDelay) / pollInterval) = 120 listJobs
\* calls: the initial delay counts inside the maxWaitDuration budget and
\* no listing is started once maxWaitDuration has elapsed since entry;
\* the timeout is raised no earlier than maxWaitDuration after entry.
C33_AtMost120Listings ==
  /\ [](\A r \in ReqIds :
         /\ log[r].pollListings <= 120
         /\ log[r].pollListings * 5000 <= (600000 - 3000) + 4999
         /\ req[r].pollCount = log[r].pollListings
         /\ log[r].poller = "timeout" =>
              log[r].pollExit - req[r].startTime >= 600000)
  /\ [][\A r \in ReqIds :
          log'[r].pollListings > log[r].pollListings =>
            /\ log'[r].pollListings = log[r].pollListings + 1
            /\ now' - req[r].startTime < 600000
            /\ now' - req[r].startTime >= 3000 + log[r].pollListings * 5000]_vars

\* 120 listings without latency, then the timeout at 603 s
C33_Witness ==
  \E r \in ReqIds :
    /\ log[r].poller = "timeout"
    /\ log[r].pollListings = 120
    /\ log[r].pollExit - req[r].startTime = 603000

====
